---- MODULE Spec2Model ----
(***************************************************************************)
(* LocalGradientAggregationHelper (horovod/common/gradient_aggregation.py) *)
(* as a state machine.  A tensor is modelled by one rational number        *)
(* val / div; a gradient is a record [kind, val, div] whose kind is        *)
(* "dense" (tf.Tensor), "sparse" (tf.IndexedSlices) or "none" (None).      *)
(* One training step is compute_gradients() followed by apply_gradients(). *)
(***************************************************************************)
EXTENDS Integers, Sequences, FiniteSets, TLC

\* ---------------------------------------------------------------- bounds
MaxF == 3
MaxCalls == 6
NumParams == 2
MaxRetries == 2
BadF == 1
MaxRuns == 3
GradVals == {1, 2}

\* ------------------------------------------------------ program constants
NoCounter == -1
InitialValue == 0
Workers == 2

VARIABLES
    \* fields of the helper
    backward_passes_per_step,
    average_aggregated_gradients,
    sparse_as_dense,
    counter,                    \* NoCounter until init_aggregation_vars
    locally_aggregated_grads,   \* values of the shadow variables
    not_none_indexes,           \* idx (from 0) -> index (from 0) of its accumulator
    num_none_grad_updates,
    \* collaborators
    has_global_step,            \* tf.compat.v1.train.get_global_step() is not None
    global_step,
    updates,                    \* number of runs of apply_grads_closure
    \* the training loop: "init", "init_failed", "compute" or "apply" is next
    pc,
    \* history
    initGrads,                  \* the batch given to init_aggregation_vars
    calls,                      \* compute_gradients calls run so far
    reductions,                 \* invocations of the reduction function
    applies,                    \* apply_gradients calls
    advances,                   \* step advancements (closure or helper increment)
    failed,                     \* the reduction function has failed
    retries,                    \* compute_gradients calls since that failure
    cycleSum,                   \* per position, the sum of the gradients given
                                \* since the last multiple of F calls (kept
                                \* only while no reduction has failed)
    last,                       \* the last call: input, result, what it did
    \* one session run of the graph of a training step, operation by operation
    run,
    \* the helpers of several worker processes, for the allreduce barrier
    workers

vars == <<backward_passes_per_step, average_aggregated_gradients, sparse_as_dense,
          counter, locally_aggregated_grads, not_none_indexes,
          num_none_grad_updates, global_step, has_global_step, updates, pc,
          initGrads, calls, reductions, applies, advances, failed, retries, cycleSum, last,
          run, workers>>

\* A run that has not started.
NoRun == [input |-> <<>>, done |-> {}, clearPred |-> FALSE, reducePred |-> FALSE,
          stepPred |-> FALSE, applyPred |-> FALSE, snapshot |-> <<>>,
          reduced |-> <<>>, divided |-> <<>>, out |-> <<>>,
          helperIncr |-> FALSE, closureRan |-> FALSE]

config == <<backward_passes_per_step, average_aggregated_gradients, sparse_as_dense,
            has_global_step>>

\* ---------------------------------------------------------------- values
Absent == [kind |-> "none", val |-> 0, div |-> 1]
Dense(v) == [kind |-> "dense", val |-> v, div |-> 1]
Sparse(v) == [kind |-> "sparse", val |-> v, div |-> 1]

IsNone(t) == t.kind = "none"
IsIndexedSlices(t) == t.kind = "sparse"

\* tf.convert_to_tensor: an IndexedSlices becomes the dense tensor of the
\* same values; a dense tensor is returned as it is.
convert_to_tensor(t) == [t EXCEPT !.kind = "dense"]

\* tf.divide(t, d): true division, kept as an unreduced fraction.
tf_divide(t, d) == [t EXCEPT !.div = t.div * d]

\* The injected allreduce_func: a sum over Workers workers that all hold the
\* same accumulators (the spec's two-worker example).
ReduceFn(tensors) == [i \in DOMAIN tensors |-> [tensors[i] EXCEPT !.val = Workers * tensors[i].val]]

\* tensor_op(tensor, *args) for the operation named by tensor_op.
call_tensor_op(tensor_op, tensor, arg) ==
    CASE tensor_op = "tf.divide" -> tf_divide(tensor, arg)

apply_op_to_not_none_tensors(tensor_op, tensors, arg) ==
    [i \in DOMAIN tensors |->
        IF ~IsNone(tensors[i]) THEN call_tensor_op(tensor_op, tensors[i], arg)
        ELSE tensors[i]]

get_not_none_from_list(tensor_list) == SelectSeq(tensor_list, LAMBDA x : ~IsNone(x))

\* ------------------------------------------------------------ input sets
Positions == 0 .. (NumParams - 1)

GradEntries == {Absent} \cup {Dense(v) : v \in GradVals} \cup {Sparse(v) : v \in GradVals}

GradLists == [1 .. NumParams -> GradEntries]

\* The first batch: only kind, shape and dtype of its entries are used.
FirstBatches == {g \in GradLists : \A i \in 1 .. NumParams : g[i].val \in {0, 1}}

\* Batches whose absent positions may differ from those of the first batch.
AnyPatternBatches(first) ==
    {g \in GradLists : \A i \in 1 .. NumParams :
        IsNone(g[i]) \/ g[i].kind = (IF IsNone(first[i]) THEN "dense" ELSE first[i].kind)}

\* Batches of a later step of the same graph: the entry kinds of the first
\* batch, any values.
AlignedBatches(first) == {g \in GradLists : \A i \in 1 .. NumParams : g[i].kind = first[i].kind}

NoCall == [op |-> "none", outcome |-> "none", input |-> <<>>, out |-> <<>>,
           reduceInvoked |-> FALSE, reduceArg |-> <<>>, counterBefore |-> NoCounter,
           closureRan |-> FALSE, helperIncr |-> FALSE,
           isRetry |-> FALSE, failedArg |-> <<>>]

\* ------------------------------------------------------------------ Init
\* Mutant: the constructor accepts backward_passes_per_step = 0.
ctor_assert_allows_zero(passes) == passes >= 0

\* assert self.backward_passes_per_step > 0
ctor_assert(passes) == passes > 0

\* __init__: the state after construction, "ctor_failed" when its assertion
\* raised and no helper exists.
InitHelper ==
    /\ backward_passes_per_step \in (0 - BadF) .. MaxF
    /\ average_aggregated_gradients \in BOOLEAN
    /\ sparse_as_dense \in BOOLEAN
    /\ has_global_step \in BOOLEAN
    /\ global_step = 0
    /\ updates = 0
    /\ locally_aggregated_grads = <<>>
    /\ counter = NoCounter
    /\ not_none_indexes = <<>>
    /\ num_none_grad_updates = 0
    /\ pc = IF ctor_assert(backward_passes_per_step) THEN "init" ELSE "ctor_failed"
    /\ initGrads = <<>>
    /\ calls = 0
    /\ reductions = 0
    /\ applies = 0
    /\ advances = 0
    /\ failed = FALSE
    /\ retries = 0
    /\ cycleSum = [p \in Positions |-> 0]
    /\ last = NoCall
    /\ run = NoRun

\* One helper, in one process.
Init == InitHelper /\ workers = <<>>

\* ------------------------------------------------- init_aggregation_vars
\* The loop over enumerate(grads) from index idx on; st holds the fields
\* the loop writes and whether the AssertionError was raised.
RECURSIVE InitLoop(_, _, _, _)
InitLoop(grads, idx, sad, st) ==
    IF idx = Len(grads) \/ st.raised
    THEN st
    ELSE LET g0 == grads[idx + 1]
             converts == sad /\ IsIndexedSlices(g0)
             grad == IF converts THEN convert_to_tensor(g0) ELSE g0
         IN  IF ~converts /\ IsIndexedSlices(g0)
             THEN [st EXCEPT !.raised = TRUE]
             ELSE IF IsNone(grad)
             THEN InitLoop(grads, idx + 1, sad,
                           [st EXCEPT !.num_none = st.num_none + 1])
             ELSE InitLoop(grads, idx + 1, sad,
                           [st EXCEPT !.indexes = st.indexes @@ (idx :> Len(st.aggs)),
                                      !.aggs = Append(st.aggs, InitialValue)])

init_aggregation_vars(grads, sad) ==
    InitLoop(grads, 0, sad,
             [indexes |-> <<>>, aggs |-> <<>>, num_none |-> 0, raised |-> FALSE])

InitAggregationVars(grads) ==
    /\ pc = "init"
    /\ LET st == init_aggregation_vars(grads, sparse_as_dense)
       IN  /\ counter' = 0
           /\ not_none_indexes' = st.indexes
           /\ locally_aggregated_grads' = st.aggs
           /\ num_none_grad_updates' = st.num_none
           /\ pc' = IF st.raised \/ Len(st.aggs) + st.num_none # Len(grads)
                    THEN "init_failed" ELSE "compute"
    /\ initGrads' = grads
    /\ last' = [NoCall EXCEPT !.op = "init", !.input = grads]
    /\ UNCHANGED <<config, global_step, updates, calls, reductions, applies,
                   advances, failed, retries, cycleSum, run, workers>>

\* ------------------------------------------------------ compute_gradients
\* Mutant: the clear leaves the accumulators as they are.
_clear_grads_keeps(aggs) == aggs

_clear_grads(aggs) == [i \in DOMAIN aggs |-> InitialValue]

\* Mutant: assign instead of assign_add.
_aggregate_grads_assigns(aggs, grads, sad) ==
    LET gs == get_not_none_from_list(grads)
        ok == Len(gs) = Len(aggs)
    IN  [ok |-> ok,
         aggs |-> IF ok THEN [i \in DOMAIN aggs |-> gs[i].val] ELSE aggs]

_aggregate_grads(aggs, grads, sad) ==
    LET gs == get_not_none_from_list(grads)
        ok == Len(gs) = Len(aggs)
        dense(g) == IF sad /\ IsIndexedSlices(g) THEN convert_to_tensor(g) ELSE g
    IN  [ok |-> ok,
         aggs |-> IF ok THEN [i \in DOMAIN aggs |-> aggs[i] + dense(gs[i]).val]
                        ELSE aggs]

\* The read, the allreduce and the division of the reduction cycle; the
\* counter reset between them is in ComputeGradients.
_allreduce_grads_helper(aggs, F, average) ==
    LET aggregated_grads == [i \in DOMAIN aggs |-> Dense(aggs[i])]
        averaged_gradients == ReduceFn(aggregated_grads)
        gradient_divisor == IF average THEN F ELSE 1
    IN  [arg |-> aggregated_grads,
         out |-> apply_op_to_not_none_tensors("tf.divide", averaged_gradients,
                                              gradient_divisor)]

\* Mutant: the clear runs when the counter is 1, after the first add.
clear_cond_after_first(c) == c = 1

\* tf.equal(self.counter, 0) of the clear conditional.
clear_cond(c) == c = 0

\* Mutant: the target is compared with the counter before its increment.
allreduce_cond_late(c, F) == c - 1 = F

\* Mutant: the target is reached one call early.
allreduce_cond_early(c, F) == c + 1 = F

\* tf.equal(self.counter, self.backward_passes_per_step).
allreduce_cond(c, F) == c = F

\* Mutant: the counter is incremented twice.
update_counter_twice(c) == c + 2

\* self.counter.assign_add(tf.constant(1)).
update_counter(c) == c + 1

\* Mutant: the branches of the conditional are exchanged, so the raw
\* gradients are returned on the reduction step and the reduction runs on
\* every other step.
takes_allreduce_branch_swapped(pred) == ~pred

\* tf.cond(pred, lambda: self._allreduce_grads_helper(grads), lambda: grads).
takes_allreduce_branch(pred) == pred

\* Mutant: the None entries are appended after the reduced gradients.
reinsert_none_at_end(allreduced_grads, indexes, n) ==
    [k \in 1 .. n |->
        IF k <= Len(allreduced_grads) THEN allreduced_grads[k] ELSE Absent]

\* "Insert gradients that are None back in."
reinsert_none(allreduced_grads, indexes, n) ==
    [k \in 1 .. n |->
        IF (k - 1) \in DOMAIN indexes
        THEN allreduced_grads[indexes[k - 1] + 1]
        ELSE Absent]

\* One run of the operations compute_gradients builds, in the order of
\* their control dependencies: clear, add, increment, conditional reduction.
\* fails: allreduce_func raises if it is invoked.  The writes of the
\* operations that ran before it (the add and the increment) stay.
ComputeGradients(grads, fails) ==
    /\ pc = "compute"
    /\ calls < MaxCalls
    /\ retries < MaxRetries
    /\ LET cleared == IF clear_cond(counter)
                      THEN _clear_grads(locally_aggregated_grads)
                      ELSE locally_aggregated_grads
           agg == _aggregate_grads(cleared, grads, sparse_as_dense)
           c1 == update_counter(counter)
           reduces == takes_allreduce_branch(
                          allreduce_cond(c1, backward_passes_per_step))
           red == _allreduce_grads_helper(agg.aggs, backward_passes_per_step,
                                          average_aggregated_gradients)
           allreduced_grads == IF reduces THEN red.out
                               ELSE get_not_none_from_list(grads)
           n == Len(locally_aggregated_grads) + num_none_grad_updates
           call == [NoCall EXCEPT !.op = "compute", !.input = grads,
                                  !.counterBefore = counter,
                                  !.isRetry = (last.outcome = "reduce_failed"
                                               /\ last.input = grads),
                                  !.failedArg = IF last.outcome = "reduce_failed"
                                                   /\ last.input = grads
                                                THEN last.reduceArg ELSE <<>>]
       IN  IF ~agg.ok
           THEN \* the assert of _aggregate_grads: no operation has run
                /\ last' = [call EXCEPT !.outcome = "assert_failed"]
                /\ UNCHANGED <<counter, locally_aggregated_grads, pc, calls,
                               reductions, failed, retries, cycleSum>>
           ELSE /\ locally_aggregated_grads' = agg.aggs
                /\ calls' = calls + 1
                /\ retries' = IF failed THEN retries + 1 ELSE 0
                /\ cycleSum' = IF failed \/ (reduces /\ fails)
                               THEN [p \in Positions |-> 0]
                               ELSE [p \in Positions |->
                                        (IF calls % backward_passes_per_step = 0
                                         THEN 0 ELSE cycleSum[p]) + grads[p + 1].val]
                /\ reductions' = IF reduces THEN reductions + 1 ELSE reductions
                /\ IF reduces /\ fails
                   THEN \* allreduce_func raises: the run stops at that operation
                        /\ counter' = c1
                        /\ failed' = TRUE
                        /\ pc' = "compute"
                        /\ last' = [call EXCEPT !.outcome = "reduce_failed",
                                                !.reduceInvoked = TRUE,
                                                !.reduceArg = red.arg]
                   ELSE /\ counter' = IF reduces THEN 0 ELSE c1
                        /\ failed' = failed
                        /\ pc' = "apply"
                        /\ last' = [call EXCEPT !.outcome = "ok",
                                                !.reduceInvoked = reduces,
                                                !.reduceArg = IF reduces THEN red.arg
                                                              ELSE <<>>,
                                                !.out = reinsert_none(allreduced_grads,
                                                                      not_none_indexes, n)]
    /\ UNCHANGED <<config, not_none_indexes, num_none_grad_updates, global_step,
                   updates, initGrads, applies, advances, run, workers>>

\* -------------------------------------------------------- apply_gradients
\* increment_global_step_counter: a no-op when no global step is tracked.
increment_global_step_counter(gs, has) == IF has THEN gs + 1 ELSE gs

\* Mutant: the helper's increment is not conditional on the counter.
global_step_cond_never(c) == FALSE

\* tf.equal(self.counter, 0) of cond_increment_global_step_counter.
global_step_cond(c) == c = 0

\* Mutant: the update runs on the steps that did not reduce.
apply_cond_inverted(c) == c # 0

\* tf.equal(self.counter, 0) of the returned conditional.
apply_cond(c) == c = 0

\* apply_grads_closure is the optimizer's update: it changes the parameters
\* and advances the global step it is given, when there is one.
ApplyGradients ==
    /\ pc = "apply"
    /\ LET increments == ~global_step_cond(counter)
           applies_grads == apply_cond(counter)
           gs1 == IF increments
                  THEN increment_global_step_counter(global_step, has_global_step)
                  ELSE global_step
       IN  /\ global_step' = IF applies_grads
                             THEN increment_global_step_counter(gs1, has_global_step)
                             ELSE gs1
           /\ updates' = IF applies_grads THEN updates + 1 ELSE updates
           /\ advances' = advances + (IF increments THEN 1 ELSE 0)
                                   + (IF applies_grads THEN 1 ELSE 0)
           /\ last' = [NoCall EXCEPT !.op = "apply", !.counterBefore = counter,
                                     !.closureRan = applies_grads,
                                     !.helperIncr = increments]
    /\ applies' = applies + 1
    /\ pc' = "compute"
    /\ UNCHANGED <<config, counter, locally_aggregated_grads, not_none_indexes,
                   num_none_grad_updates, initGrads, calls, reductions, failed,
                   retries, cycleSum, run, workers>>

\* ------------------------------------------------------------------ Spec
Next ==
    \/ \E grads \in FirstBatches : InitAggregationVars(grads)
    \/ /\ pc = "compute"
       /\ \E grads \in AlignedBatches(initGrads), fails \in BOOLEAN :
              ComputeGradients(grads, fails)
    \/ ApplyGradients

Spec == Init /\ [][Next]_vars

\* The same helper driven with batches of any absence pattern.
NextAny ==
    \/ \E grads \in FirstBatches : InitAggregationVars(grads)
    \/ /\ pc = "compute"
       /\ \E grads \in AnyPatternBatches(initGrads), fails \in BOOLEAN :
              ComputeGradients(grads, fails)
    \/ ApplyGradients

SpecAny == Init /\ [][NextAny]_vars

TypeOK ==
    /\ backward_passes_per_step \in (0 - BadF) .. MaxF
    /\ counter \in {NoCounter} \cup (0 .. MaxCalls)
    /\ pc \in {"ctor_failed", "init", "init_failed", "compute", "apply"}
    /\ calls \in 0 .. MaxCalls

\* ---------------------------------------------------------------- claims
F == backward_passes_per_step

\* The last completed call was a compute_gradients() call that returned.
ComputeReturned == last.op = "compute" /\ last.outcome = "ok"

\* C1: while the reduction function has never failed, the reduction function
\* is invoked during compute call number n exactly when n is a positive
\* multiple of F, so after n calls exactly n \div F reductions have fired.
C1_ReducesOnMultiplesOfF ==
    (~failed /\ pc \in {"compute", "apply"}) =>
        /\ reductions = calls \div F
        /\ ComputeReturned => (last.reduceInvoked <=> calls % F = 0)

C1_Witness ==
    /\ ~failed /\ F = 3 /\ calls = 6 /\ reductions = 2
    /\ ComputeReturned /\ last.reduceInvoked

\* The gradients submitted since the last multiple of F calls, summed per
\* parameter position, as the list the reduction function is given.
LocalSum == [k \in 1 .. NumParams |->
                IF IsNone(last.input[k]) THEN Absent ELSE Dense(cycleSum[k - 1])]

Scaled(t) == IF average_aggregated_gradients THEN [t EXCEPT !.div = F] ELSE t

\* C2: the output of compute call number j*F is, at every non-absent
\* position, the reduction function applied to the sum of the F gradients of
\* calls (j-1)*F+1 .. j*F, divided by F exactly when
\* average_aggregated_gradients is set.
C2_ReducedValueIsCycleSum ==
    (~failed /\ ComputeReturned /\ calls % F = 0) =>
        \A k \in 1 .. NumParams :
            ~IsNone(last.input[k]) => last.out[k] = Scaled(ReduceFn(LocalSum)[k])

C2_Witness ==
    /\ ~failed /\ ComputeReturned /\ F = 3 /\ calls = 6
    /\ average_aggregated_gradients
    /\ last.input = <<Dense(1), Dense(2)>>
    /\ cycleSum = (0 :> 3 @@ 1 :> 6)
    /\ last.out = <<[kind |-> "dense", val |-> 6, div |-> 3],
                    [kind |-> "dense", val |-> 12, div |-> 3]>>

\* C3: a compute call whose number is not a multiple of F returns exactly the
\* gradients it was given and does not invoke the reduction function.
C3_PassThroughOffCycle ==
    (~failed /\ ComputeReturned /\ calls % F # 0) =>
        /\ last.out = last.input
        /\ ~last.reduceInvoked

C3_Witness ==
    /\ ~failed /\ ComputeReturned /\ F = 3 /\ calls = 5
    /\ last.out = last.input
    /\ \E i \in DOMAIN locally_aggregated_grads :
           locally_aggregated_grads[i] # last.out[1].val /\ ~IsNone(last.out[1])

\* C4: with compute then apply once per step and no reduction failure, apply
\* runs the update closure on step n exactly when n is a multiple of F (the
\* step's compute reduced), so the closure has run once per F steps.
C4_UpdateOncePerF ==
    (~failed /\ last.op = "apply") =>
        /\ last.closureRan <=> calls % F = 0
        /\ last.closureRan <=> last.counterBefore = 0
        /\ updates = reductions
        /\ updates = applies \div F

C4_Witness ==
    /\ ~failed /\ last.op = "apply" /\ F = 3 /\ applies = 6 /\ updates = 2
    /\ last.closureRan

\* C5: every apply call advances the external step exactly once, either by
\* the update closure or by the helper's increment of the global step, never
\* both and never neither; without a global step the increment is a no-op.
C5_StepAdvancesOncePerApply ==
    /\ last.op = "apply" => (last.closureRan <=> ~last.helperIncr)
    /\ advances = applies
    /\ global_step = IF has_global_step THEN applies ELSE 0

C5_Witness ==
    /\ last.op = "apply" /\ last.helperIncr /\ ~last.closureRan
    /\ F = 3 /\ applies = 5 /\ updates = 1 /\ has_global_step /\ global_step = 5

\* C6: if the reduction function fails during a compute call, the counter
\* after the call equals the counter before the call.
C6_CounterUnchangedByFailedCall ==
    last.outcome = "reduce_failed" => counter = last.counterBefore

\* C7: a retry, with the same gradients, of a compute call whose reduction
\* failed invokes the reduction function again, on the accumulator contents
\* of the failed attempt.
C7_RetryRepeatsReduction ==
    (ComputeReturned /\ last.isRetry) \/ (last.outcome = "reduce_failed" /\ last.isRetry) =>
        /\ last.reduceInvoked
        /\ last.reduceArg = last.failedArg

\* Position (from 1) in the compacted list of the non-absent entry k of grads.
Rank(grads, k) == Cardinality({j \in 1 .. k : ~IsNone(grads[j])})

\* C8: after initialization no accumulator exists for an absent position and
\* accumulator count + absent count is the parameter count; every compute
\* call returns a list of the input's length, absent exactly where the input
\* is absent, each value coming from the same original position.
C8_AbsentPositionsKept ==
    pc \in {"compute", "apply"} =>
        /\ Len(locally_aggregated_grads) + num_none_grad_updates = Len(initGrads)
        /\ num_none_grad_updates = Cardinality({k \in 1 .. Len(initGrads) : IsNone(initGrads[k])})
        /\ DOMAIN not_none_indexes = {k - 1 : k \in {j \in 1 .. Len(initGrads) : ~IsNone(initGrads[j])}}
        /\ ComputeReturned =>
              /\ Len(last.out) = Len(last.input)
              /\ \A k \in 1 .. Len(last.input) :
                    /\ IsNone(last.out[k]) <=> IsNone(last.input[k])
                    /\ ~IsNone(last.input[k]) =>
                          IF last.reduceInvoked
                          THEN last.out[k].val =
                                 Workers * locally_aggregated_grads[Rank(last.input, k)]
                          ELSE last.out[k] = last.input[k]

C8_Witness ==
    /\ Len(initGrads) = 2 /\ IsNone(initGrads[1]) /\ ~IsNone(initGrads[2])
    /\ Len(locally_aggregated_grads) = 1
    /\ ComputeReturned /\ last.reduceInvoked
    /\ IsNone(last.out[1]) /\ last.out[2].val = 2 * Workers

\* C9: without a reduction failure every compute call increments the counter
\* by one, the counter wraps to 0 exactly in the calls that reduce, and after
\* a call the counter is (number of calls) mod F.
C9_CounterIsCallsModF ==
    (~failed /\ pc \in {"compute", "apply"}) =>
        /\ counter = calls % F
        /\ ComputeReturned =>
              /\ counter = 0 <=> last.reduceInvoked
              /\ IF last.reduceInvoked
                 THEN last.counterBefore + 1 = F
                 ELSE counter = last.counterBefore + 1

C9_Witness ==
    /\ ~failed /\ ComputeReturned /\ F = 3 /\ calls = 5 /\ counter = 2
    /\ last.counterBefore = 1

\* C10: initialization fails on a sparse gradient exactly when sparse_as_dense
\* is not set and backward_passes_per_step > 1.
C10_RejectsSparseOnlyIfFOverOne ==
    pc # "init" =>
        (pc = "init_failed" <=>
            /\ \E k \in 1 .. Len(initGrads) : IsIndexedSlices(initGrads[k])
            /\ ~sparse_as_dense
            /\ F > 1)

\* The accumulator of the non-absent position k (from 1) of the first batch.
AccumulatorOf(k) == locally_aggregated_grads[Rank(initGrads, k)]

PresentPositions == {k \in 1 .. Len(initGrads) : ~IsNone(initGrads[k])}

\* C14 as stated: after any completed compute call (no reduction failure)
\* each accumulator holds the sum of the gradients given for its parameter
\* since the last reduction, which is empty right after a reducing call.
C14_AccumulatorIsSumSinceReduction ==
    (~failed /\ pc \in {"compute", "apply"}) =>
        \A k \in PresentPositions :
            AccumulatorOf(k) = IF calls % F = 0 THEN 0 ELSE cycleSum[k - 1]

\* C14 amended: after any completed compute call (no reduction failure) each
\* accumulator holds the sum of the gradients given for its parameter in the
\* current cycle of F calls; after a reducing call that is still the sum just
\* reduced, which the next call clears before it adds.
C14_AccumulatorIsCycleSum ==
    (~failed /\ pc \in {"compute", "apply"}) =>
        \A k \in PresentPositions : AccumulatorOf(k) = cycleSum[k - 1]

C14_Witness ==
    /\ ~failed /\ ComputeReturned /\ F = 3 /\ calls = 4
    /\ last.input = <<Dense(2), Dense(1)>>
    /\ locally_aggregated_grads = <<2, 1>>

\* C15: in every reachable state, also after a failed reduction and further
\* or retried compute calls, the counter is within 0 .. F.
C15_CounterInRange ==
    pc \in {"compute", "apply"} => counter \in 0 .. F

\* The value of accumulator i (from 1) after a compute call that was given
\* grads when the counter was c.
AfterClearAndAdd(i, c, grads) ==
    (IF c = 0 THEN InitialValue ELSE locally_aggregated_grads[i])
        + get_not_none_from_list(grads)[i].val

\* C16: apply changes neither the counter nor an accumulator; a compute call
\* changes the accumulators by its clear (counter 0 at entry) and its add
\* only, its reduction cycle changing only the counter; the index map, the
\* absent count and the accumulator count do not change after initialization.
C16_FrameConditions ==
    [][/\ pc = "apply" =>
             /\ counter' = counter
             /\ locally_aggregated_grads' = locally_aggregated_grads
       /\ pc # "init" =>
             /\ not_none_indexes' = not_none_indexes
             /\ num_none_grad_updates' = num_none_grad_updates
             /\ Len(locally_aggregated_grads') = Len(locally_aggregated_grads)
       /\ (pc = "compute" /\ last'.outcome \in {"ok", "reduce_failed"}) =>
             /\ \A i \in DOMAIN locally_aggregated_grads :
                   locally_aggregated_grads'[i] = AfterClearAndAdd(i, counter, last'.input)
             /\ last'.reduceInvoked => last'.reduceArg =
                   [i \in DOMAIN locally_aggregated_grads |->
                       Dense(locally_aggregated_grads'[i])]]_vars

C16_Witness ==
    /\ last.op = "apply" /\ last.closureRan /\ F = 2 /\ applies = 4
    /\ locally_aggregated_grads = <<3, 2>>

AbsentSet(grads) == {k \in 1 .. Len(grads) : IsNone(grads[k])}

\* C11: a compute call whose absent positions differ from those of the first
\* batch fails in that call: it returns no result and no operation of it
\* runs, so no gradient is added to the accumulator of another position.
C11_PatternMismatchFails ==
    (last.op = "compute" /\ AbsentSet(last.input) # AbsentSet(initGrads)) =>
        last.outcome = "assert_failed"

\* C12: construction with backward_passes_per_step <= 0 fails, so every
\* helper that exists has a reduction target its counter can reach.
C12_NonPositiveFrequencyRejected ==
    /\ backward_passes_per_step <= 0 <=> pc = "ctor_failed"
    /\ pc = "ctor_failed" => counter = NoCounter /\ last = NoCall
    /\ pc \in {"init", "init_failed", "compute", "apply"} => backward_passes_per_step >= 1

C12_Witness ==
    backward_passes_per_step = 0 /\ pc = "ctor_failed"

\* ------------------------------------------- the graph of a training step
\* compute_gradients and apply_gradients build one dataflow graph; a session
\* run executes each of its operations once, in any order that respects the
\* control and data dependencies.  An operation is <<name, i>>, i the
\* accumulator it works on (0 when it is not per accumulator).
Op(name) == <<name, 0>>
OpsOf(name, n) == {<<name, i>> : i \in 1 .. n}

NumAggs == Len(locally_aggregated_grads)

\* tf.cond(tf.equal(self.counter, 0), ...): the conditional after its predicate.
clear_deps == {Op("pred_clear")}

\* with tf.control_dependencies([clear_op]): the assign_add operations.
aggregate_deps == {Op("clear")}

\* with tf.control_dependencies([aggregation_ops]): update_counter.
update_counter_deps(n) == OpsOf("assign_add", n)

\* with tf.control_dependencies([update_counter]): the allreduce predicate.
pred_allreduce_deps == {Op("update_counter")}

\* read_value() in the true branch of the conditional.
read_deps == {Op("pred_allreduce")}

\* with tf.control_dependencies([aggregation_read_ops]): the allreduce.
allreduce_deps(n) == OpsOf("read", n)

\* Mutant: the reset is ordered after the reads only.
reset_deps_reads_only(n) == OpsOf("read", n)

\* with tf.control_dependencies([g.op for g in averaged_gradients ...]),
\* inside the control dependencies on the reads.
reset_deps(n) == OpsOf("read", n) \cup {Op("allreduce")}

\* with tf.control_dependencies([reset_op]), inside the control dependencies
\* on the reads; averaged_gradients is the data input.
divide_deps(n) == OpsOf("read", n) \cup {Op("allreduce"), Op("reset")}

\* cond_increment_global_step_counter: its predicate is built outside any
\* control dependency.
pred_step_deps == {}

cond_step_deps == {Op("pred_step")}

\* with tf.control_dependencies([tf.group(*flattended_args0)]): the gradients
\* returned by compute_gradients and cond_increment_global_step_counter.
pred_apply_deps == {Op("allreduced_grads"), Op("cond_increment")}

closure_deps == {Op("pred_apply")}

Ready(op, deps) == pc = "run" /\ op \notin run.done /\ deps \subseteq run.done

\* The operation is in the true branch of the allreduce conditional, which
\* has been taken.
InAllreduceBranch == Op("pred_allreduce") \in run.done /\ run.reducePred

inRunFixed == <<config, not_none_indexes, num_none_grad_updates, initGrads, calls,
                reductions, applies, advances, failed, retries, cycleSum, last,
                workers, pc>>

StartRun(grads) ==
    /\ pc = "compute"
    /\ calls < MaxRuns
    /\ NumAggs >= 1
    /\ _aggregate_grads(locally_aggregated_grads, grads, sparse_as_dense).ok
    /\ run' = [NoRun EXCEPT !.input = grads,
                            !.snapshot = [i \in 1 .. NumAggs |-> InitialValue],
                            !.reduced = [i \in 1 .. NumAggs |-> Dense(InitialValue)],
                            !.divided = [i \in 1 .. NumAggs |-> Dense(InitialValue)]]
    /\ pc' = "run"
    /\ UNCHANGED <<config, counter, locally_aggregated_grads, not_none_indexes,
                   num_none_grad_updates, global_step, updates, initGrads, calls,
                   reductions, applies, advances, failed, retries, cycleSum, last,
                   workers>>

PredClear ==
    /\ Ready(Op("pred_clear"), {})
    /\ run' = [run EXCEPT !.done = @ \cup {Op("pred_clear")},
                          !.clearPred = clear_cond(counter)]
    /\ UNCHANGED <<inRunFixed, counter, locally_aggregated_grads, global_step, updates>>

ClearOp ==
    /\ Ready(Op("clear"), clear_deps)
    /\ locally_aggregated_grads' = IF run.clearPred
                                   THEN _clear_grads(locally_aggregated_grads)
                                   ELSE locally_aggregated_grads
    /\ run' = [run EXCEPT !.done = @ \cup {Op("clear")}]
    /\ UNCHANGED <<inRunFixed, counter, global_step, updates>>

AssignAdd(i) ==
    /\ Ready(<<"assign_add", i>>, aggregate_deps)
    /\ locally_aggregated_grads' =
          [locally_aggregated_grads EXCEPT ![i] =
              _aggregate_grads(locally_aggregated_grads, run.input,
                               sparse_as_dense).aggs[i]]
    /\ run' = [run EXCEPT !.done = @ \cup {<<"assign_add", i>>}]
    /\ UNCHANGED <<inRunFixed, counter, global_step, updates>>

UpdateCounter ==
    /\ Ready(Op("update_counter"), update_counter_deps(NumAggs))
    /\ counter' = update_counter(counter)
    /\ run' = [run EXCEPT !.done = @ \cup {Op("update_counter")}]
    /\ UNCHANGED <<inRunFixed, locally_aggregated_grads, global_step, updates>>

PredAllreduce ==
    /\ Ready(Op("pred_allreduce"), pred_allreduce_deps)
    /\ run' = [run EXCEPT !.done = @ \cup {Op("pred_allreduce")},
                          !.reducePred = takes_allreduce_branch(
                              allreduce_cond(counter, backward_passes_per_step))]
    /\ UNCHANGED <<inRunFixed, counter, locally_aggregated_grads, global_step, updates>>

ReadValue(i) ==
    /\ InAllreduceBranch
    /\ Ready(<<"read", i>>, read_deps)
    /\ run' = [run EXCEPT !.done = @ \cup {<<"read", i>>},
                          !.snapshot[i] = locally_aggregated_grads[i]]
    /\ UNCHANGED <<inRunFixed, counter, locally_aggregated_grads, global_step, updates>>

Allreduce ==
    /\ InAllreduceBranch
    /\ Ready(Op("allreduce"), allreduce_deps(NumAggs))
    /\ run' = [run EXCEPT !.done = @ \cup {Op("allreduce")},
                          !.reduced = ReduceFn([i \in 1 .. NumAggs |->
                                                   Dense(run.snapshot[i])])]
    /\ UNCHANGED <<inRunFixed, counter, locally_aggregated_grads, global_step, updates>>

ResetCounter ==
    /\ InAllreduceBranch
    /\ Ready(Op("reset"), reset_deps(NumAggs))
    /\ counter' = 0
    /\ run' = [run EXCEPT !.done = @ \cup {Op("reset")}]
    /\ UNCHANGED <<inRunFixed, locally_aggregated_grads, global_step, updates>>

Divide(i) ==
    /\ InAllreduceBranch
    /\ Ready(<<"divide", i>>, divide_deps(NumAggs))
    /\ run' = [run EXCEPT !.done = @ \cup {<<"divide", i>>},
                          !.divided[i] = apply_op_to_not_none_tensors(
                              "tf.divide", run.reduced,
                              IF average_aggregated_gradients
                              THEN backward_passes_per_step ELSE 1)[i]]
    /\ UNCHANGED <<inRunFixed, counter, locally_aggregated_grads, global_step, updates>>

\* The result of the allreduce conditional, with the None entries back in.
AllreducedGrads ==
    /\ Ready(Op("allreduced_grads"), {Op("pred_allreduce")})
    /\ run.reducePred => OpsOf("divide", NumAggs) \subseteq run.done
    /\ run' = [run EXCEPT !.done = @ \cup {Op("allreduced_grads")},
                          !.out = reinsert_none(
                              IF run.reducePred THEN run.divided
                              ELSE get_not_none_from_list(run.input),
                              not_none_indexes, NumAggs + num_none_grad_updates)]
    /\ UNCHANGED <<inRunFixed, counter, locally_aggregated_grads, global_step, updates>>

PredStep ==
    /\ Ready(Op("pred_step"), pred_step_deps)
    /\ run' = [run EXCEPT !.done = @ \cup {Op("pred_step")},
                          !.stepPred = global_step_cond(counter)]
    /\ UNCHANGED <<inRunFixed, counter, locally_aggregated_grads, global_step, updates>>

CondIncrement ==
    /\ Ready(Op("cond_increment"), cond_step_deps)
    /\ global_step' = IF ~run.stepPred
                      THEN increment_global_step_counter(global_step, has_global_step)
                      ELSE global_step
    /\ run' = [run EXCEPT !.done = @ \cup {Op("cond_increment")},
                          !.helperIncr = ~run.stepPred]
    /\ UNCHANGED <<inRunFixed, counter, locally_aggregated_grads, updates>>

PredApply ==
    /\ Ready(Op("pred_apply"), pred_apply_deps)
    /\ run' = [run EXCEPT !.done = @ \cup {Op("pred_apply")},
                          !.applyPred = apply_cond(counter)]
    /\ UNCHANGED <<inRunFixed, counter, locally_aggregated_grads, global_step, updates>>

ApplyClosure ==
    /\ Ready(Op("closure"), closure_deps)
    /\ global_step' = IF run.applyPred
                      THEN increment_global_step_counter(global_step, has_global_step)
                      ELSE global_step
    /\ updates' = IF run.applyPred THEN updates + 1 ELSE updates
    /\ run' = [run EXCEPT !.done = @ \cup {Op("closure")},
                          !.closureRan = run.applyPred]
    /\ UNCHANGED <<inRunFixed, counter, locally_aggregated_grads>>

EndRun ==
    /\ pc = "run"
    /\ Op("closure") \in run.done
    /\ pc' = "compute"
    /\ calls' = calls + 1
    /\ run' = NoRun
    /\ UNCHANGED <<config, counter, locally_aggregated_grads, not_none_indexes,
                   num_none_grad_updates, global_step, updates, initGrads,
                   reductions, applies, advances, failed, retries, cycleSum, last,
                   workers>>

NextGraph ==
    \/ \E grads \in FirstBatches : InitAggregationVars(grads)
    \/ /\ pc = "compute"
       /\ \E grads \in AlignedBatches(initGrads) : StartRun(grads)
    \/ PredClear
    \/ ClearOp
    \/ \E i \in DOMAIN locally_aggregated_grads : AssignAdd(i)
    \/ UpdateCounter
    \/ PredAllreduce
    \/ \E i \in DOMAIN locally_aggregated_grads : ReadValue(i)
    \/ Allreduce
    \/ ResetCounter
    \/ \E i \in DOMAIN locally_aggregated_grads : Divide(i)
    \/ AllreducedGrads
    \/ PredStep
    \/ CondIncrement
    \/ PredApply
    \/ ApplyClosure
    \/ EndRun

\* Helpers constructed with sparse_as_dense = False: the order of the
\* operations does not depend on the conversion of IndexedSlices.
InitGraph == Init /\ ~sparse_as_dense

SpecGraph == InitGraph /\ [][NextGraph]_vars

\* The run is inside a reduction cycle.
InCycle == pc = "run" /\ InAllreduceBranch

\* C13: in a reduction cycle every accumulator is read before the reduction
\* function is invoked, with no accumulator written after a read; the counter
\* is reset only after the reduction has produced its output and the division
\* runs only after the reset, so the counter is never seen at 0 while the
\* reduced gradients are not there yet.
C13_ReductionCycleOrder ==
    pc = "run" =>
        /\ Op("allreduce") \in run.done => OpsOf("read", NumAggs) \subseteq run.done
        /\ Op("reset") \in run.done => Op("allreduce") \in run.done
        /\ \A i \in 1 .. NumAggs : <<"divide", i>> \in run.done => Op("reset") \in run.done
        /\ (\E i \in 1 .. NumAggs : <<"read", i>> \in run.done) =>
              {Op("clear")} \cup OpsOf("assign_add", NumAggs) \subseteq run.done
        /\ (InCycle /\ Op("allreduce") \notin run.done) => counter # 0
        /\ (InCycle /\ Op("allreduce") \in run.done) =>
              run.reduced = ReduceFn([i \in 1 .. NumAggs |->
                                         Dense(locally_aggregated_grads[i])])

C13_Witness ==
    /\ InCycle /\ backward_passes_per_step = 2 /\ counter = 2
    /\ Op("allreduce") \in run.done /\ Op("reset") \notin run.done
    /\ run.reduced = <<Dense(2 * Workers), Dense(3 * Workers)>>

\* C18: in a step run as one graph, the conditional that increments the
\* global step and the conditional that runs the update closure test the same
\* counter value, so exactly one of the two branches is taken.
C18_OneBranchPerStep ==
    (pc = "run" /\ Op("closure") \in run.done) =>
        /\ run.stepPred = run.applyPred
        /\ run.helperIncr <=> ~run.closureRan

\* ------------------------------------------------------- several workers
\* Each worker process owns a helper (its counter and, here, one
\* accumulator) and calls compute_gradients once per step with gradient 1.
\* The injected allreduce is a barrier: the call of a worker returns when
\* every worker has entered it, with the sum of what the workers passed in.
WorkerIds == 1 .. Workers

NewWorker(passes) ==
    [passes |-> passes, counter |-> 0, aggs |-> <<InitialValue>>, steps |-> 0,
     waiting |-> FALSE, entered |-> {}, reduced |-> 0]

InitWorkers ==
    /\ InitHelper
    /\ backward_passes_per_step = 1
    /\ ~average_aggregated_gradients /\ ~sparse_as_dense /\ ~has_global_step
    /\ workers \in [WorkerIds -> {NewWorker(f) : f \in 1 .. MaxF}]

\* compute_gradients of worker w up to its allreduce; the call returns here
\* when the step does not reduce.
WorkerCompute(w) ==
    LET me == workers[w]
        cleared == IF clear_cond(me.counter) THEN _clear_grads(me.aggs) ELSE me.aggs
        agg == _aggregate_grads(cleared, <<Dense(1)>>, FALSE)
        c1 == update_counter(me.counter)
        reduces == takes_allreduce_branch(allreduce_cond(c1, me.passes))
    IN  /\ workers # <<>>
        /\ ~me.waiting
        /\ me.steps < MaxCalls
        /\ workers' = [workers EXCEPT ![w] =
              [me EXCEPT !.aggs = agg.aggs,
                         !.counter = c1,
                         !.steps = me.steps + 1,
                         !.waiting = reduces,
                         !.entered = IF reduces THEN @ \cup {me.steps + 1} ELSE @]]
        /\ UNCHANGED <<config, counter, locally_aggregated_grads, not_none_indexes,
                       num_none_grad_updates, global_step, updates, pc, initGrads,
                       calls, reductions, applies, advances, failed, retries,
                       cycleSum, last, run>>

RECURSIVE SumOfReads(_)
SumOfReads(ws) ==
    IF ws = {} THEN 0
    ELSE LET w == CHOOSE x \in ws : TRUE
         IN  workers[w].aggs[1] + SumOfReads(ws \ {w})

\* Every worker is in the allreduce: it completes for all of them, and each
\* helper resets its counter.
BarrierComplete ==
    /\ workers # <<>>
    /\ \A w \in WorkerIds : workers[w].waiting
    /\ workers' = [w \in WorkerIds |->
                      [workers[w] EXCEPT !.waiting = FALSE,
                                         !.counter = 0,
                                         !.reduced = SumOfReads(WorkerIds)]]
    /\ UNCHANGED <<config, counter, locally_aggregated_grads, not_none_indexes,
                   num_none_grad_updates, global_step, updates, pc, initGrads,
                   calls, reductions, applies, advances, failed, retries,
                   cycleSum, last, run>>

NextWorkers ==
    \/ \E w \in WorkerIds : WorkerCompute(w)
    \/ BarrierComplete

\* Every worker process keeps running its training loop.
SpecWorkers ==
    /\ InitWorkers
    /\ [][NextWorkers]_vars
    /\ \A w \in WorkerIds : WF_vars(WorkerCompute(w))
    /\ WF_vars(BarrierComplete)

SameFrequency == \A v, w \in WorkerIds : workers[v].passes = workers[w].passes

\* C17: workers with the same backward_passes_per_step enter the barrier on
\* the same steps (the multiples of it), the barrier completes with all of
\* them at the same step, and no worker stays in the barrier forever.
C17_SameFrequencyLockstep ==
    /\ [](SameFrequency =>
            /\ \A w \in WorkerIds :
                  workers[w].entered =
                      {n \in 1 .. workers[w].steps : n % workers[w].passes = 0}
            /\ (\A w \in WorkerIds : workers[w].waiting) =>
                  \A v, w \in WorkerIds : workers[v].steps = workers[w].steps)
    /\ \A w \in WorkerIds :
          (SameFrequency /\ workers[w].waiting) ~> ~workers[w].waiting

\* With different frequencies: worker 1 is in the barrier of its step 1,
\* which worker 2 has finished without entering it.
C17_Witness ==
    /\ workers # <<>>
    /\ workers[1].passes = 1 /\ workers[2].passes = 2
    /\ workers[1].waiting /\ workers[1].steps = 1
    /\ ~workers[2].waiting /\ workers[2].steps = 1 /\ 1 \notin workers[2].entered

====
